---- MODULE Spec2Model ----
(***************************************************************************)
(* Model of the merry-tree application controller (App component) and the  *)
(* scene state machine it owns: treeState, focusedPhotoIndex, the photo    *)
(* list, the gesture-enabled flag, the remembered gesture label and the    *)
(* hand-rotation signal, driven by detector gesture events and by the      *)
(* manual controls.                                                        *)
(*                                                                         *)
(* The hand tracker (classifier, sessions, inference loop) and the      *)
(* particle layout of the scene (TreeParticles) are modelled beside it.    *)
(*                                                                         *)
(* Angles are measured in integer ticks, TwoPI ticks to the full turn, so  *)
(* that sin/cos/atan2 of the selection code reduce to exact arithmetic on  *)
(* the circle. Indices are 0-based as in the source.                       *)
(***************************************************************************)
EXTENDS Integers, Sequences, FiniteSets, TLC

\* ----------------------------------------------------------------- bounds
\* Longest photo list explored.
MaxPhotos == 3
\* Longest sequence of gesture labels logged.
MaxLabels == 5
\* Longest photo gallery the angular selector is applied to.
SelMaxPhotos == 10
\* Wall-clock resolution in milliseconds, and the number of clock steps of a
\* tracker session.
TickMs == 40
MaxTicks == 4
\* Tracker sessions started in one run.
MaxSessions == 2
\* Angular resolution: ticks in a quarter turn (PI/2).
QuarterTurn == 4
\* Largest particle count explored, and the number of frames drawn in a run.
MaxCount == 31
MaxFrames == 2

\* ------------------------------------------------------------ basic types
GATHERED == "GATHERED"
SCATTERED == "SCATTERED"

\* Gesture labels emitted by the tracker.
Labels == {"None", "Fist", "Open", "Pinch"}

\* number | null, and the optional rotation argument: the empty sequence is
\* null / undefined, a one-element sequence carries the value.
null == << >>
Some(v) == <<v>>
IsNull(o) == o = << >>
Val(o) == o[1]

PI == 2 * QuarterTurn
TwoPI == 4 * QuarterTurn

\* The directional signal is mapped to -1.5..1.5 by the tracker; the camera
\* angle is x * 3.0 radians, i.e. at most 4.5 rad = 4.5/(2*pi) turns.  In
\* ticks, x ranges over -RotXMax..RotXMax with 3 * RotXMax <= 4.5 rad.
RotXMax == (45 * TwoPI * 1000) \div (3 * 10 * 6284)
RotX == (0 - RotXMax)..RotXMax
\* The vertical component only drives the camera height in the scene and is
\* read by no handler of App: it is kept at the centre.
RotY == {0}
Rotations == [x : RotX, y : RotY]

Abs(n) == IF n < 0 THEN 0 - n ELSE n
Max(a, b) == IF a > b THEN a ELSE b

\* -------------------------------------------------------------- variables
VARIABLES
  appState,      \* useState<AppState>: treeState, useGestures, currentGesture,
                 \* photos, focusedPhotoIndex
  handRotation,  \* useState({x, y})
  lastEvent,     \* the handler invocation that produced this state
  prev,          \* appState as it was when that handler was invoked
  labelLog,      \* the labels processed so far and the positions at which
                 \* the rising-edge test of the Pinch branch was true
  sel,           \* a target angle and the index the selection loop returns
                 \* for it (null until the loop has run)
  tracker,       \* HandTracker: its refs, the wall clock, the inference in
                 \* flight and what the last detector result made it do
  life,          \* HandTracker: the runs of its effect (sessions), their
                 \* start-up stage, camera stream and inferences in flight,
                 \* with the refs and the status they share
  layout         \* TreeParticles: the particle settings, the memoised
                 \* particle records and the instance positions as drawn

vars ==
  <<appState, handRotation, lastEvent, prev, labelLog, sel, tracker, life,
    layout>>

\* The state of App.
appVars == <<appState, handRotation, lastEvent, prev>>

\* The variables the App handlers do not touch.
auxVars == <<labelLog, sel, tracker, life, layout>>

\* --------------------------------------------------------- angular selector
\* const camTheta = currentRotation.x * 3.0
camTheta(x) == x * 3

\* Variant: atan2 called with its arguments exchanged, atan2(camX, camZ),
\* which is the camera angle itself.
Atan2_ArgsSwapped(theta) ==
  LET m == theta % TwoPI
  IN IF m > PI THEN m - TwoPI ELSE m

\* atan2(cos(camTheta), sin(camTheta)): the direction of the vector
\* (sin t, cos t) is PI/2 - t, reported by atan2 in (-PI, PI]; the code then
\* adds 2*PI to a negative result.
Atan2CamZCamX(theta) ==
  LET m == (QuarterTurn - theta) % TwoPI
  IN IF m > PI THEN m - TwoPI ELSE m

targetAngle(x) ==
  LET a == Atan2CamZCamX(camTheta(x))
  IN IF a < 0 THEN a + TwoPI ELSE a

\* Variant: slot i placed at (i + 1) * angleStep.
slotDiff_OffByOne(target, i, n) ==
  LET pTheta == ((i + 1) * TwoPI) % (TwoPI * n)
      diff == Abs(target * n - pTheta)
  IN IF diff > PI * n THEN TwoPI * n - diff ELSE diff

\* Variant: the raw difference is not reduced to the shorter arc.
slotDiff_NoWrap(target, i, n) ==
  LET pTheta == (i * TwoPI) % (TwoPI * n)
  IN Abs(target * n - pTheta)

\* One iteration of photos.forEach: the reduced angular difference between
\* the target and slot i.  angleStep = 2*PI / max(1, n) is not an integer
\* number of ticks in general, so every angle of the comparison is kept
\* multiplied by n (the comparisons are unaffected).
slotDiff(target, i, n) ==
  LET pTheta == (i * TwoPI) % (TwoPI * n)
      diff == Abs(target * n - pTheta)
  IN IF diff > PI * n THEN TwoPI * n - diff ELSE diff

RECURSIVE selectLoop(_, _, _, _, _)
selectLoop(i, len, target, closestIndex, minDiff) ==
  IF i >= len THEN closestIndex
  ELSE LET diff == slotDiff(target, i, Max(1, len))
       IN IF diff < minDiff
          THEN selectLoop(i + 1, len, target, i, diff)
          ELSE selectLoop(i + 1, len, target, closestIndex, minDiff)

\* closestIndex starts at -1 and minDiff at Infinity (any value above the
\* largest reduced difference).
selectClosest(target, len) ==
  selectLoop(0, len, target, 0 - 1, TwoPI * Max(1, len) + 1)

AngularSelector(x, len) == selectClosest(targetAngle(x), len)

\* ------------------------------------------------- HandTracker: classifier
\* Landmark coordinates are in hundredths of the normalised image, times in
\* milliseconds.
\* pinchDistance < 0.06
PinchThreshold == 6
\* speed > 1.0 (image widths per second)
SpeedThreshold == 1
\* timeSinceLast > 66
MinInterval == 66

\* A hand sample, reduced to what analyzeGesture reads: landmark 9 (palm),
\* the y of the four finger tips (8, 12, 16, 20) and of their proximal
\* joints (6, 10, 14, 18), and landmarks[8] - landmarks[4] (index tip minus
\* thumb tip) on the three axes.
PalmSet == {[x |-> 50, y |-> 50], [x |-> 55, y |-> 50], [x |-> 120, y |-> 50],
            [x |-> 100, y |-> 0]}
TipYSet == {<<40, 40, 40, 40>>, <<60, 60, 60, 60>>,
            <<40, 40, 40, 60>>, <<50, 50, 50, 50>>}
PipY == <<50, 50, 50, 50>>
ThumbSet == {[dx |-> 3, dy |-> 4, dz |-> 3], [dx |-> 0, dy |-> 0, dz |-> 6],
             [dx |-> 20, dy |-> 0, dz |-> 0]}
Samples == [lm9 : PalmSet, tipY : TipYSet, pipY : {PipY}, thumb : ThumbSet]

\* A detector result: no hand ("absent"), a hand with all landmarks
\* ("hand"), a hand whose landmark list lacks entry 9 ("noPalm"), or has the
\* palm but lacks the finger entries ("noFingers").
DefaultSample ==
  [lm9 |-> [x |-> 50, y |-> 50], tipY |-> PipY, pipY |-> PipY,
   thumb |-> [dx |-> 0, dy |-> 0, dz |-> 0]]
NoResult == [kind |-> "none", lm |-> DefaultSample]
Results ==
  {[kind |-> k, lm |-> DefaultSample] : k \in {"absent", "noPalm", "noFingers"}}
    \cup {[kind |-> "hand", lm |-> m] : m \in Samples}

\* The squared planar displacement of the palm since the stored position.
Displacement2(pos, palm) ==
  (palm.x - pos.x) * (palm.x - pos.x) + (palm.y - pos.y) * (palm.y - pos.y)

\* speed: 0 unless a position is stored, lastAnalysisTime > 0 and dt > 0;
\* then sqrt(dx*dx + dy*dy) / dt, with dt in seconds.
SpeedIsZero(t, palm, now) ==
  IF ~IsNull(t.lastHandPos) /\ t.lastAnalysisTime > 0
  THEN IF now - t.lastAnalysisTime > 0
       THEN Displacement2(Val(t.lastHandPos), palm) = 0
       ELSE TRUE
  ELSE TRUE

\* Variant without the test of dt: a sample at the time of the previous one
\* divides by zero, and an infinite speed exceeds the threshold.
isMovingFast_NoTimeGuard(t, palm, now) ==
  IF ~IsNull(t.lastHandPos) /\ t.lastAnalysisTime > 0
  THEN LET dt == now - t.lastAnalysisTime
       IN IF dt > 0
          THEN 100 * Displacement2(Val(t.lastHandPos), palm)
                 > SpeedThreshold * SpeedThreshold * dt * dt
          ELSE Displacement2(Val(t.lastHandPos), palm) > 0
  ELSE FALSE

\* isMovingFast = speed > 1.0.  With d in hundredths and dt in ms,
\* (sqrt(d2) / 100) / (dt / 1000) > 1.0  iff  100 * d2 > dt * dt.
isMovingFast(t, palm, now) ==
  IF ~IsNull(t.lastHandPos) /\ t.lastAnalysisTime > 0
  THEN LET dt == now - t.lastAnalysisTime
       IN IF dt > 0
          THEN 100 * Displacement2(Val(t.lastHandPos), palm)
                 > SpeedThreshold * SpeedThreshold * dt * dt
          ELSE FALSE
  ELSE FALSE

\* [isIndexOpen, isMiddleOpen, isRingOpen, isPinkyOpen].filter(Boolean).length
fingersOpenCount(lm) ==
  Cardinality({f \in 1..4 : lm.tipY[f] < lm.pipY[f]})

\* The square of pinchDistance.
PinchDistance2(lm) ==
  lm.thumb.dx * lm.thumb.dx + lm.thumb.dy * lm.thumb.dy
    + lm.thumb.dz * lm.thumb.dz

\* Variant: the pinch test accepts a distance equal to the threshold.
IsPinchClose_Inclusive(lm) ==
  PinchDistance2(lm) <= PinchThreshold * PinchThreshold

\* pinchDistance < 0.06
IsPinchClose(lm) == PinchDistance2(lm) < PinchThreshold * PinchThreshold

\* Variant: the finger-count rules are tried before the pinch rule.
classify_CountFirst(lm, fast) ==
  IF fingersOpenCount(lm) = 0 THEN "Fist"
  ELSE IF fingersOpenCount(lm) >= 4 THEN "Open"
  ELSE IF IsPinchClose(lm) /\ ~fast THEN "Pinch"
  ELSE "None"

\* The if / else-if chain that sets gesture.
classify(lm, fast) ==
  IF IsPinchClose(lm) /\ ~fast THEN "Pinch"
  ELSE IF fingersOpenCount(lm) = 0 THEN "Fist"
  ELSE IF fingersOpenCount(lm) >= 4 THEN "Open"
  ELSE "None"

\* Variant: the horizontal component is not mirrored.
rotationOf_NotMirrored(palm) ==
  [x |-> (palm.x - 50) * 3, y |-> (palm.y - 50) * 3]

\* x = (0.5 - landmarks[9].x) * 2 * 1.5, y = (landmarks[9].y - 0.5) * 2 * 1.5
rotationOf(palm) == [x |-> (50 - palm.x) * 3, y |-> (palm.y - 50) * 3]

\* analyzeGesture(landmarks): reading .x of a missing landmark throws.  A
\* list without entry 9 throws at the first statement; a list with the palm
\* but without the finger entries throws after the velocity memory has been
\* written.  Otherwise onGestureUpdate(gesture, {x, y}) is called.
analyzeGesture(t, r, now) ==
  IF r.kind = "noPalm"
  THEN [t EXCEPT !.threw = TRUE, !.emitted = null, !.fast = FALSE, !.zero = TRUE]
  ELSE LET fast == isMovingFast(t, r.lm.lm9, now)
           zero == SpeedIsZero(t, r.lm.lm9, now)
           u == [t EXCEPT !.lastHandPos = Some(r.lm.lm9),
                          !.lastAnalysisTime = now,
                          !.fast = fast,
                          !.zero = zero]
       IN IF r.kind = "noFingers"
          THEN [u EXCEPT !.threw = TRUE, !.emitted = null]
          ELSE [u EXCEPT !.threw = FALSE,
                         !.emitted = Some([gesture |-> classify(r.lm, fast),
                                           rotation |-> Some(rotationOf(r.lm.lm9))])]

\* Variant: the branch for a result without a hand keeps lastHandPos.
noHandBranch_KeepsPos(t) ==
  [t EXCEPT !.lastLandmarks = null,
            !.threw = FALSE,
            !.emitted = Some([gesture |-> "None", rotation |-> null])]

\* The else branch of hands.onResults: no hand in the result.
noHandBranch(t) ==
  [t EXCEPT !.lastLandmarks = null,
            !.lastHandPos = null,
            !.threw = FALSE,
            !.emitted = Some([gesture |-> "None", rotation |-> null])]

\* hands.onResults(results), for a tracker that is active.  When
\* analyzeGesture throws, the statement isProcessing.current = false is not
\* reached; the exception leaves the callback into the detector library,
\* which either rejects the promise of send() (rejected: the catch handler
\* of the loop clears isProcessing) or does not.
onResults(t, r, now, rejected) ==
  LET h == [t EXCEPT !.lastResult = r,
                     !.prevKind = t.lastResult.kind,
                     !.prevHandPos = t.lastHandPos,
                     !.prevAnalysisTime = t.lastAnalysisTime,
                     !.lostPos = IF r.kind = "absent" THEN t.lastHandPos ELSE @,
                     !.pending = FALSE]
      a == IF r.kind = "absent"
           THEN noHandBranch(h)
           ELSE analyzeGesture([h EXCEPT !.lastLandmarks = Some(r)], r, now)
  IN IF a.threw
     THEN [a EXCEPT !.isProcessing = IF rejected THEN FALSE ELSE @]
     ELSE [a EXCEPT !.isProcessing = FALSE]

\* Variant: the gate without the test of the time since the last inference.
loopGate_NoThrottle(t, now, sized) == ~t.isProcessing /\ sized

\* timeSinceLast > 66 && !isProcessing.current && video.videoWidth > 0 &&
\* video.videoHeight > 0; sized tells whether the video has both dimensions.
loopGate(t, now, sized) ==
  now - t.lastInferenceTime > MinInterval /\ ~t.isProcessing /\ sized

\* One iteration of the frame loop of an active session at the time now: a
\* frame is submitted if the gate lets it through.  prevInferenceTime keeps
\* the time of the submission before (null for the first), sentSized whether
\* the submitted frame had its dimensions, unsizedSeen that an iteration
\* found the video without them.
loopIteration(t, now, sized) ==
  LET u == [t EXCEPT !.unsizedSeen = @ \/ ~sized]
  IN  IF loopGate(t, now, sized)
      THEN [u EXCEPT !.isProcessing = TRUE,
                     !.lastInferenceTime = now,
                     !.pending = TRUE,
                     !.prevInferenceTime =
                        IF t.lastInferenceTime > 0
                        THEN Some(t.lastInferenceTime) ELSE null,
                     !.sentSized = sized]
      ELSE u

\* The tracker as the effect leaves it before a session starts.
IdleTracker ==
  [lastLandmarks |-> null, isProcessing |-> FALSE, lastInferenceTime |-> 0,
   lastHandPos |-> null, lastAnalysisTime |-> 0, active |-> FALSE,
   now |-> 0, pending |-> FALSE,
   emitted |-> null, lastResult |-> NoResult, prevKind |-> "none",
   lostPos |-> null, fast |-> FALSE, zero |-> TRUE, threw |-> FALSE,
   prevHandPos |-> null, prevAnalysisTime |-> 0,
   prevInferenceTime |-> null, sentSized |-> TRUE, unsizedSeen |-> FALSE]

\* ------------------------------------------------------- App: state updaters
\* Positions of the photo list (0-based) and the photo at a position.
Indices(photos) == 0..(Len(photos) - 1)
PhotoAt(photos, i) == photos[i + 1]

\* URL.createObjectURL(file): a URL no listed photo has.
Urls == 1..MaxPhotos
createObjectURL(photos) ==
  CHOOSE u \in Urls :
    /\ \A k \in 1..Len(photos) : photos[k] # u
    /\ \A w \in Urls : (\A k \in 1..Len(photos) : photos[k] # w) => u <= w

\* Variant: a Fist that gathers but keeps the focus.
FistBranch_KeepFocus(p) ==
  [treeState |-> GATHERED, focusedPhotoIndex |-> p.focusedPhotoIndex]

\* gesture === 'Fist'
FistBranch(p) ==
  [treeState |-> GATHERED, focusedPhotoIndex |-> null]

\* Variant: an Open that scatters but keeps the focus.
OpenBranch_KeepFocus(p) ==
  [treeState |-> SCATTERED, focusedPhotoIndex |-> p.focusedPhotoIndex]

\* gesture === 'Open'
OpenBranch(p) ==
  [treeState |-> SCATTERED, focusedPhotoIndex |-> null]

\* Variant: the pinch selects for the neutral direction {x: 0, y: 0} instead
\* of the direction delivered with the event.
PinchBranch_NeutralRotation(p, currentRotation) ==
  IF p.currentGesture # "Pinch" /\ p.treeState = SCATTERED /\ Len(p.photos) > 0
  THEN [treeState |-> p.treeState,
        focusedPhotoIndex |-> Some(AngularSelector(0, Len(p.photos)))]
  ELSE [treeState |-> p.treeState, focusedPhotoIndex |-> p.focusedPhotoIndex]

\* Variant: the pinch selects on every Pinch label, not only on a rising edge.
PinchBranch_NoEdge(p, currentRotation) ==
  IF p.treeState = SCATTERED /\ Len(p.photos) > 0
  THEN [treeState |-> p.treeState,
        focusedPhotoIndex |->
          Some(AngularSelector(currentRotation.x, Len(p.photos)))]
  ELSE [treeState |-> p.treeState, focusedPhotoIndex |-> p.focusedPhotoIndex]

\* Variant: the selection loop runs without the photos.length > 0 check.
PinchBranch_NoLengthCheck(p, currentRotation) ==
  IF p.currentGesture # "Pinch" /\ p.treeState = SCATTERED
  THEN [treeState |-> p.treeState,
        focusedPhotoIndex |->
          Some(AngularSelector(currentRotation.x, Len(p.photos)))]
  ELSE [treeState |-> p.treeState, focusedPhotoIndex |-> p.focusedPhotoIndex]

\* gesture === 'Pinch'
PinchBranch(p, currentRotation) ==
  IF p.currentGesture # "Pinch" /\ p.treeState = SCATTERED
  THEN IF Len(p.photos) > 0
       THEN [treeState |-> p.treeState,
             focusedPhotoIndex |->
               Some(AngularSelector(currentRotation.x, Len(p.photos)))]
       ELSE [treeState |-> p.treeState,
             focusedPhotoIndex |-> p.focusedPhotoIndex]
  ELSE [treeState |-> p.treeState, focusedPhotoIndex |-> p.focusedPhotoIndex]

\* Variant: a None label treated as a reset of the focus.
GestureUpdater_NoneResets(p, gesture, rotation) ==
  [p EXCEPT !.treeState = IF gesture = "Fist" THEN GATHERED
                          ELSE IF gesture = "Open" THEN SCATTERED ELSE @,
            !.currentGesture = gesture,
            !.focusedPhotoIndex =
              IF gesture = "Pinch"
              THEN PinchBranch(p, IF IsNull(rotation) THEN [x |-> 0, y |-> 0]
                                  ELSE Val(rotation)).focusedPhotoIndex
              ELSE null]

\* The rising-edge test of the Pinch branch:
\* gesture === 'Pinch' and prev.currentGesture !== 'Pinch'.
IsRisingEdge(p, gesture) == gesture = "Pinch" /\ p.currentGesture # "Pinch"

\* Variant: the remembered label is not updated by a None label.
GestureUpdater_NoneNotRemembered(p, gesture, rotation) ==
  IF gesture = "None" THEN p
  ELSE [p EXCEPT !.treeState = IF gesture = "Fist" THEN GATHERED
                               ELSE IF gesture = "Open" THEN SCATTERED ELSE @,
                 !.currentGesture = gesture,
                 !.focusedPhotoIndex =
                   IF gesture = "Pinch"
                   THEN PinchBranch(p, IF IsNull(rotation) THEN [x |-> 0, y |-> 0]
                                       ELSE Val(rotation)).focusedPhotoIndex
                   ELSE null]

\* The updater passed to setAppState by handleGestureUpdate.  rotation is
\* the optional second argument; currentRotation = rotation || {x: 0, y: 0}.
GestureUpdater(p, gesture, rotation) ==
  LET currentRotation ==
        IF IsNull(rotation) THEN [x |-> 0, y |-> 0] ELSE Val(rotation)
      r == CASE gesture = "Fist" -> FistBranch(p)
             [] gesture = "Open" -> OpenBranch(p)
             [] gesture = "Pinch" -> PinchBranch(p, currentRotation)
             [] OTHER -> [treeState |-> p.treeState,
                          focusedPhotoIndex |-> p.focusedPhotoIndex]
  IN [p EXCEPT !.treeState = r.treeState,
               !.currentGesture = gesture,
               !.focusedPhotoIndex = r.focusedPhotoIndex]

\* Variant: the early return on disabled gestures is missing.
handleGestureUpdate_NoGuard(capturedUseGestures, p, gesture, rotation) ==
  GestureUpdater(p, gesture, rotation)

\* handleGestureUpdate as memoised on [appState.useGestures]: the closure
\* holds the useGestures value of the render that created it.
handleGestureUpdate(capturedUseGestures, p, gesture, rotation) ==
  IF ~capturedUseGestures THEN p ELSE GestureUpdater(p, gesture, rotation)

\* if (rotation) setHandRotation(rotation), skipped by the early return.
handRotationAfter(capturedUseGestures, h, rotation) ==
  IF ~capturedUseGestures \/ IsNull(rotation) THEN h ELSE Val(rotation)

addPhoto(p, url) == [p EXCEPT !.photos = Append(p.photos, url)]

\* photos.filter((_, i) => i !== index)
removePhoto(p, index) ==
  [p EXCEPT !.photos =
     SubSeq(p.photos, 1, index) \o SubSeq(p.photos, index + 2, Len(p.photos))]

toggleGesture(p) == [p EXCEPT !.useGestures = ~p.useGestures]

\* Variant: the manual toggle flips the state but keeps the focus.
toggleTreeState_KeepFocus(p) ==
  [p EXCEPT !.treeState = IF p.treeState = GATHERED THEN SCATTERED ELSE GATHERED]

toggleTreeState(p) ==
  [p EXCEPT !.treeState = IF p.treeState = GATHERED THEN SCATTERED ELSE GATHERED,
            !.focusedPhotoIndex = null]

\* Variant: the click selects in GATHERED too.
handlePhotoClick_NoStateGuard(p, index) ==
  IF ~p.useGestures
  THEN [p EXCEPT !.focusedPhotoIndex =
          IF p.focusedPhotoIndex = Some(index) THEN null ELSE Some(index)]
  ELSE p

\* Variant: the click selects while gestures are enabled too.
handlePhotoClick_NoGestureGuard(p, index) ==
  IF p.treeState = SCATTERED
  THEN [p EXCEPT !.focusedPhotoIndex =
          IF p.focusedPhotoIndex = Some(index) THEN null ELSE Some(index)]
  ELSE p

\* handlePhotoClick is re-created by every render, so the values it tests
\* are those of the state the click is made on.
handlePhotoClick(p, index) ==
  IF ~p.useGestures /\ p.treeState = SCATTERED
  THEN [p EXCEPT !.focusedPhotoIndex =
          IF p.focusedPhotoIndex = Some(index) THEN null ELSE Some(index)]
  ELSE p

\* The manual toggle button is rendered only while gestures are off.
ManualControlsVisible(p) == ~p.useGestures

\* The isGestureActive prop App passes to the scene.
isGestureActive(p) == p.useGestures /\ p.currentGesture # "None"

\* <OrbitControls enabled={!isGestureActive} />
orbitControlsEnabled(p) == ~isGestureActive(p)

\* --------------------------------------------------- HandTracker: sessions
\* Every run of the effect with enabled = true is a session: the closure
\* variables active and stream, the stage its initializeMediaPipe() has
\* reached, and the inferences it has submitted that have neither delivered
\* a result nor an error.  stoppedAt is the stage at which the cleanup of the
\* session ran ("" while it has not run); failedOnce records a recoverable
\* inference error.
Stages == {"script", "camera", "video", "running", "failed", "returned"}

NewSession ==
  [active |-> TRUE, stage |-> "script", stream |-> "none", pending |-> 0,
   stoppedAt |-> "", failedOnce |-> FALSE]

\* Ticks of the wall clock after which timeSinceLast > 66 holds; the time
\* since lastInferenceTime is counted up to this value.
ElapsedCap == MinInterval \div TickMs + 1

\* The component as mounted with enabled = false: the effect ran, reset
\* the refs and set the status.  lastInferenceTime is 0, far in the past.
\* The inferences one session may have in flight: one, and one more for
\* each earlier session whose late error can clear isProcessing.
MaxPending == MaxSessions

IdleLife ==
  [sessions |-> << >>, isProcessing |-> FALSE, elapsed |-> ElapsedCap,
   status |-> "Disabled", crashed |-> FALSE, prevRot |-> [x |-> 0, y |-> 0],
   prevProcessing |-> FALSE]

\* The session of the latest effect run, 0 while gestures are disabled.
CurrentSession(p, l) == IF p.useGestures THEN Len(l.sessions) ELSE 0

\* The cleanup function of a session: active = false, the tracks of the
\* stream are stopped if getUserMedia has already resolved.
cleanup(sess) ==
  [sess EXCEPT !.active = FALSE,
               !.stream = IF @ = "live" THEN "stopped" ELSE @,
               !.stoppedAt = sess.stage]

\* The effect for enabled = false, after the cleanup of the session that
\* was running: the refs are reset and the status is set.
effectDisabled(l) ==
  LET n == Len(l.sessions)
  IN [l EXCEPT !.sessions = [k \in 1..n |->
                              IF k = n THEN cleanup(l.sessions[k])
                              ELSE l.sessions[k]],
               !.isProcessing = FALSE,
               !.status = "Disabled"]

\* The effect for enabled = true: the refs are reset, a session starts and
\* initializeMediaPipe() runs up to its first await.
effectEnabled(l) ==
  [l EXCEPT !.sessions = Append(@, NewSession),
            !.isProcessing = FALSE,
            !.status = "Loading Model..."]

\* window.Hands became available: the session returns if it is no longer
\* active, otherwise it creates the detector and asks for the camera.
scriptLoaded(l, s) ==
  IF ~l.sessions[s].active
  THEN [l EXCEPT !.sessions[s].stage = "returned"]
  ELSE [l EXCEPT !.sessions[s].stage = "camera",
                 !.status = "Starting Camera..."]

\* Variant: the stream obtained by a session that is no longer active is
\* kept.
cameraGranted_NoActiveCheck(l, s) ==
  [l EXCEPT !.sessions[s].stream = "live", !.sessions[s].stage = "video"]

\* getUserMedia resolved: a session that is no longer active stops the
\* tracks and returns, an active one attaches the stream to the video.
cameraGranted(l, s) ==
  IF ~l.sessions[s].active
  THEN [l EXCEPT !.sessions[s].stream = "stopped",
                 !.sessions[s].stage = "returned"]
  ELSE [l EXCEPT !.sessions[s].stream = "live", !.sessions[s].stage = "video"]

\* The video has its metadata and play() resolved: the status is set and
\* startLoop() is called.
videoReady(l, s) ==
  [l EXCEPT !.sessions[s].stage = "running", !.status = "Active"]

\* The catch block of initializeMediaPipe(): the script did not load in
\* time, getUserMedia was rejected or play() failed.
startupCatch(l, p, s) ==
  [life |-> [l EXCEPT !.sessions[s].stage = "failed", !.status = "Error"],
   app |-> p]

\* The gate of the frame loop.
canSubmit(l, s) ==
  /\ l.sessions[s].stage = "running"
  /\ l.sessions[s].active
  /\ l.elapsed * TickMs > MinInterval
  /\ ~l.isProcessing

\* isProcessing.current = true; lastInferenceTime.current = now; send(...)
submit(l, s) ==
  [l EXCEPT !.isProcessing = TRUE,
            !.elapsed = 0,
            !.sessions[s].pending = @ + 1]

\* Variant: onResults without the test of active.
resultCallback_NoActiveCheck(l, p, h, s, gesture, rotation) ==
  [life |-> [l EXCEPT !.sessions[s].pending = @ - 1, !.isProcessing = FALSE],
   app |-> handleGestureUpdate(TRUE, p, gesture, rotation),
   rot |-> handRotationAfter(TRUE, h, rotation)]

\* hands.onResults of session s: nothing happens unless the session is
\* active; otherwise the label goes to the onGestureUpdate the session was
\* created with (the handleGestureUpdate rendered with useGestures = true)
\* and isProcessing is cleared.
resultCallback(l, p, h, s, gesture, rotation) ==
  IF ~l.sessions[s].active
  THEN [life |-> [l EXCEPT !.sessions[s].pending = @ - 1],
        app |-> p,
        rot |-> h]
  ELSE [life |-> [l EXCEPT !.sessions[s].pending = @ - 1,
                           !.isProcessing = FALSE],
        app |-> handleGestureUpdate(TRUE, p, gesture, rotation),
        rot |-> handRotationAfter(TRUE, h, rotation)]

\* Variant: the catch handler of send() leaves isProcessing set.
sendCatch_KeepsFlag(l, p, s, fatal) ==
  [life |-> IF fatal
            THEN [l EXCEPT !.sessions[s].pending = @ - 1,
                           !.sessions[s].active = FALSE,
                           !.status = "Crash",
                           !.crashed = TRUE]
            ELSE [l EXCEPT !.sessions[s].pending = @ - 1,
                           !.sessions[s].failedOnce = TRUE],
   app |-> p]

\* Variant: the catch handler of send() gathers the tree.
sendCatch_Gathers(l, p, s, fatal) ==
  [life |-> IF fatal
            THEN [l EXCEPT !.sessions[s].pending = @ - 1,
                           !.isProcessing = FALSE,
                           !.sessions[s].active = FALSE,
                           !.status = "Crash",
                           !.crashed = TRUE]
            ELSE [l EXCEPT !.sessions[s].pending = @ - 1,
                           !.isProcessing = FALSE,
                           !.sessions[s].failedOnce = TRUE],
   app |-> [p EXCEPT !.treeState = GATHERED, !.focusedPhotoIndex = null]]

\* The catch handler of send(): isProcessing is cleared; an error whose
\* text contains 'memory' or 'Aborted' (fatal) also ends the session.
sendCatch(l, p, s, fatal) ==
  [life |-> IF fatal
            THEN [l EXCEPT !.sessions[s].pending = @ - 1,
                           !.isProcessing = FALSE,
                           !.sessions[s].active = FALSE,
                           !.status = "Crash",
                           !.crashed = TRUE]
            ELSE [l EXCEPT !.sessions[s].pending = @ - 1,
                           !.isProcessing = FALSE,
                           !.sessions[s].failedOnce = TRUE],
   app |-> p]

\* ------------------------------------------------- Scene: particle layout
\* TreeParticles.  Lengths are integers: Unit to the scene unit, chosen so
\* that targets given in fortieths and MaxFrames interpolation steps by
\* fortieths are exact.  Math.random() is drawn from
\* the quarters 0, 1/4, 1/2, 3/4; directions are kept to the quarter turn.
Grain == 4
Unit == 40 ^ (MaxFrames + 1)
U40 == Unit \div 40

\* new THREE.Vector3(x, y, z), the coordinates given in fortieths of a unit.
P40(a, b, c) == [x |-> a * U40, y |-> b * U40, z |-> c * U40]
Origin == P40(0, 0, 0)

cosQ(q) == CASE q % 4 = 0 -> 1 [] q % 4 = 1 -> 0 [] q % 4 = 2 -> 0 - 1 [] OTHER -> 0
sinQ(q) == CASE q % 4 = 0 -> 0 [] q % 4 = 1 -> 1 [] q % 4 = 2 -> 0 [] OTHER -> 0 - 1

\* The k-th Math.random() of particle i in one run of the generator, as a
\* number of quarters.  Each seed stands for one sequence the generator of the
\* platform may produce.
Seeds == {1, 2}
draw(seed, i, k) ==
  ((seed + i) * 7 + k * 5 + ((i * k) % 3) + ((k * k) % 5)) % Grain

\* The particle counts the slider is set to, and the other settings.
Counts == {MaxCount \div 2, MaxCount}
\* Of config, TreeParticles reads count for the records and the mesh, size for
\* the scale of an instance, and the colours and brightness for its colour
\* alone: the last two are not kept.
Sizes == {6, 7}
Brightnesses == {12, 13}
Colors == {"#22d3ee", "#ffffff"}
INITIAL_CONFIG == [count |-> MaxCount \div 2, size |-> 6]

\* const coreCount = Math.floor(count * 0.15)
coreCount(count) == (15 * count) \div 100

ParticleTypes == {"core", "ornament", "ribbon", "structure"}

\* A variant that tests for the ribbon before the ornament.
particleType_RibbonFirst(i, count) ==
  LET isRibbon == i % 6 = 0
      isOrnament == ~isRibbon /\ i % 30 = 0
  IN  IF i < coreCount(count) THEN "core"
      ELSE IF isOrnament THEN "ornament"
      ELSE IF isRibbon THEN "ribbon"
      ELSE "structure"

\* type: core below coreCount, else every 30th an ornament, else every 6th a
\* ribbon, else structure.
particleType(i, count) ==
  LET isOrnament == i % 30 = 0
      isRibbon == ~isOrnament /\ i % 6 = 0
  IN  IF i < coreCount(count) THEN "core"
      ELSE IF isOrnament THEN "ornament"
      ELSE IF isRibbon THEN "ribbon"
      ELSE "structure"

\* Math.sqrt of a draw, in tenths (rounded down).
sqrtTenths(d) == CASE d = 0 -> 0 [] d = 1 -> 5 [] d = 2 -> 7 [] OTHER -> 8

\* gatheredPos: a point of the cone (treeHeight 15, baseRadius 7.5); the core
\* fills its axis, the others sit on five spirals of 4.5 loops.  The jitter of
\* the angle, less than a quarter turn, is dropped.
gatheredPos(seed, i, type) ==
  LET d == draw(seed, i, 3)
      d2 == draw(seed, i, 4)
      d3 == draw(seed, i, 5)
      h == 150 * d - 300
      theta == (45 * d + 8 * (i % 5)) \div 10
      rBase == (Grain - d) * 75
  IN  CASE type = "core" ->
             LET r == ((Grain - d) * 3 * sqrtTenths(d2))
             IN  P40(cosQ(d3) * r, h, sinQ(d3) * r)
        [] type = "ribbon" ->
             P40(cosQ(theta) * (rBase + 4), h, sinQ(theta) * (rBase + 4))
        [] type = "ornament" ->
             P40(cosQ(theta) * (rBase + 16), h, sinQ(theta) * (rBase + 16))
        [] OTHER ->
             LET r == Max(8, rBase + (d2 - 2) * 18)
             IN  P40(cosQ(theta) * r, h + (d3 - 2) * 12, sinQ(theta) * r)

\* const isHeart = Math.random() < 0.6
isHeartDraw(seed, i) == 10 * draw(seed, i, 7) < 6 * Grain

\* One attempt of the rejection sampling: hx, hy, hz in quarters (3d - 6 over
\* 4) and the test (x2 + 2.25 z2 + y2 - 1)^3 - x2 y3 - 0.1125 z2 y3 < 0,
\* multiplied through by 4096 * 320.
heartPoint(seed, i, attempt) ==
  [x |-> 3 * draw(seed, i, 13 + 3 * attempt) - 6,
   y |-> 3 * draw(seed, i, 14 + 3 * attempt) - 6,
   z |-> 3 * draw(seed, i, 15 + 3 * attempt) - 6]

insideHeart(h) ==
  LET A == 4 * h.x * h.x + 9 * h.z * h.z + 4 * h.y * h.y - 64
      y3 == h.y * h.y * h.y
  IN  5 * A * A * A - 1280 * h.x * h.x * y3 - 144 * h.z * h.z * y3 < 0

MaxAttempts == 100

\* A variant without the fallback: the last candidate is kept.
heartLoop_KeepsLastCandidate(seed, i) ==
  LET inside == {a \in 0..(MaxAttempts - 1) : insideHeart(heartPoint(seed, i, a))}
      first == CHOOSE a \in inside : \A b \in inside : a <= b
  IN  IF inside = {}
      THEN [done |-> FALSE, attempts |-> MaxAttempts,
            h |-> heartPoint(seed, i, MaxAttempts - 1)]
      ELSE [done |-> TRUE, attempts |-> first + 1,
            h |-> heartPoint(seed, i, first)]

\* while (!done && attempts < 100) { ... attempts++ }: the loop stops at the
\* first attempt that falls inside the heart, or after the 100th; a loop that
\* never succeeded leaves the origin (if (!done) { hx=0; hy=0; hz=0; }).
heartLoop(seed, i) ==
  LET inside == {a \in 0..(MaxAttempts - 1) : insideHeart(heartPoint(seed, i, a))}
      first == CHOOSE a \in inside : \A b \in inside : a <= b
  IN  IF inside = {}
      THEN [done |-> FALSE, attempts |-> MaxAttempts,
            h |-> [x |-> 0, y |-> 0, z |-> 0]]
      ELSE [done |-> TRUE, attempts |-> first + 1,
            h |-> heartPoint(seed, i, first)]

\* scatteredPos: a point of the heart (scaled by 1.2, lowered by 3.5; the
\* origin of the heart when no attempt succeeded), or a point of the shell of
\* radius 8..50 around the scene.
scatteredPos(seed, i, isHeart) ==
  IF isHeart
  THEN LET s == heartLoop(seed, i)
       IN  P40(12 * s.h.x, 12 * s.h.y - 140, 12 * s.h.z)
  ELSE LET r == 320 + 420 * draw(seed, i, 8)
           theta == draw(seed, i, 9)
       IN  P40(r * cosQ(theta), 300 * draw(seed, i, 10) - 400, r * sinQ(theta))

\* temp.push({ gatheredPos, scatteredPos, lerpSpeed, phase, type, isHeart });
\* lerpSpeed = 0.05 + Math.random() * 0.1 in fortieths, phase in quarter
\* turns.  The fields that only feed scale and colour are left out.  The
\* fields attempts and done keep what the sampling loop of a heart member
\* ended with (0 and FALSE for the others).
particleRecord(seed, i, count) ==
  LET type == particleType(i, count)
      isHeart == isHeartDraw(seed, i)
  IN  [gatheredPos |-> gatheredPos(seed, i, type),
       scatteredPos |-> scatteredPos(seed, i, isHeart),
       attempts |-> IF isHeart THEN heartLoop(seed, i).attempts ELSE 0,
       done |-> isHeart /\ heartLoop(seed, i).done,
       lerpSpeed |-> 2 + draw(seed, i, 11),
       phase |-> draw(seed, i, 12),
       type |-> type,
       isHeart |-> isHeart]

\* The body of the particles memo: one record per index 0..count-1.
generateParticles(count, seed) ==
  [i \in 0..(count - 1) |-> particleRecord(seed, i, count)]

\* Every run of the generator explored, computed once.
ParticleTable ==
  [count \in Counts |-> [seed \in Seeds |-> generateParticles(count, seed)]]

\* The particles memo and the instanced mesh as first rendered: a new mesh
\* holds every instance at the origin.
mountParticles(config, seed) ==
  [config |-> config,
   particles |-> ParticleTable[config.count][seed],
   rendered |-> [i \in 0..(config.count - 1) |-> Origin],
   prevRendered |-> [i \in 0..(config.count - 1) |-> Origin],
   prevParticles |-> ParticleTable[config.count][seed],
   frames |-> 0,
   frameTree |-> "",
   prevFrameTree |-> ""]

\* The layout while the scene is not followed.
NoLayout ==
  [config |-> INITIAL_CONFIG, particles |-> << >>, rendered |-> << >>,
   prevRendered |-> << >>, prevParticles |-> << >>, frames |-> 0,
   frameTree |-> "", prevFrameTree |-> ""]

\* The fields prevParticles, prevRendered and prevFrameTree keep what the
\* records, the instances and the scene state of the last frame were before
\* the last event.

\* A variant of the memo that also depends on config.size.
renderParticles_DependsOnSize(l, config) ==
  IF config.count # l.config.count \/ config.size # l.config.size
  THEN {[mountParticles(config, seed) EXCEPT
           !.prevParticles = l.particles,
           !.frames = l.frames, !.frameTree = l.frameTree,
           !.prevFrameTree = l.prevFrameTree] : seed \in Seeds}
  ELSE {[l EXCEPT !.config = config, !.prevRendered = l.rendered,
                  !.prevParticles = l.particles]}

\* A render of TreeParticles with the given config: useMemo(..., [config.count])
\* runs the generator again only when config.count differs from the last
\* render, and the instanced mesh (args = [.., .., config.count]) is then
\* built anew; otherwise records and instances are the ones of the last
\* render.  The result is the set of layouts the generator may produce.
renderParticles(l, config) ==
  IF config.count # l.config.count
  THEN {[mountParticles(config, seed) EXCEPT
           !.prevParticles = l.particles,
           !.frames = l.frames, !.frameTree = l.frameTree,
           !.prevFrameTree = l.prevFrameTree] : seed \in Seeds}
  ELSE {[l EXCEPT !.config = config, !.prevRendered = l.rendered,
                  !.prevParticles = l.particles]}

\* A variant that puts the instance on its target at once.
lerp_Jump(v, target, speed) == target

\* dummy.position.lerp(target, p.lerpSpeed): v += (target - v) * alpha, with
\* the speed in fortieths.
lerp(v, target, speed) ==
  [x |-> v.x + ((target.x - v.x) * speed) \div 40,
   y |-> v.y + ((target.y - v.y) * speed) \div 40,
   z |-> v.z + ((target.z - v.z) * speed) \div 40]

\* Math.sin(...) * 0.05: the amplitude of the floating animation.
HoverAmp == Unit \div 20

\* hoverY: zero unless the tree is gathered; ribbons swing four times as fast
\* as the rest.  The time is counted in quarter periods of the slow swing.
hoverY(treeState, p, time) ==
  IF treeState = GATHERED
  THEN sinQ(time * (IF p.type = "ribbon" THEN 4 ELSE 1) + p.phase) * HoverAmp
  ELSE 0

\* The target of a particle in a scene state.
targetOf(treeState, p) ==
  IF treeState = GATHERED THEN p.gatheredPos ELSE p.scatteredPos

\* useFrame: every instance is read back, moved toward its target, lifted by
\* hoverY and written back.
frame(l, treeState, time) ==
  [l EXCEPT
     !.rendered =
        [i \in DOMAIN l.particles |->
           LET p == l.particles[i]
               v == lerp(l.rendered[i], targetOf(treeState, p), p.lerpSpeed)
           IN  [v EXCEPT !.y = @ + hoverY(treeState, p, time)]],
     !.prevRendered = l.rendered,
     !.prevParticles = l.particles,
     !.frames = @ + 1,
     !.frameTree = treeState,
     !.prevFrameTree = l.frameTree]

\* ------------------------------------------------------------------ events
Event(op, gesture, index) == [op |-> op, gesture |-> gesture, index |-> index]

\* What the tracker passes to onGestureUpdate: 'None' alone when no hand is
\* seen, otherwise a label together with the directional signal.
GestureCalls ==
  {<<"None", null>>} \cup {<<g, Some(r)>> : g \in Labels, r \in Rotations}

\* Nothing processed yet.
EmptyLabelLog == [labels |-> << >>, edges |-> {}]
NoSel == [target |-> 0, closest |-> null]

Init ==
  /\ appState = [treeState |-> GATHERED,
                 useGestures |-> FALSE,
                 currentGesture |-> "None",
                 photos |-> << >>,
                 focusedPhotoIndex |-> null]
  /\ handRotation = [x |-> 0, y |-> 0]
  /\ lastEvent = Event("init", "", 0 - 1)
  /\ prev = appState
  /\ labelLog = EmptyLabelLog
  /\ sel = NoSel
  /\ tracker = IdleTracker
  /\ life = IdleLife
  /\ layout = NoLayout

\* onGestureUpdate(gesture, rotation) is invoked on the callback as rendered:
\* handleGestureUpdate is re-created whenever appState.useGestures changes.
GestureUpdateApp(gesture, rotation) ==
  /\ appState' = handleGestureUpdate(appState.useGestures, appState, gesture, rotation)
  /\ handRotation' = handRotationAfter(appState.useGestures, handRotation, rotation)
  /\ lastEvent' = Event("gesture", gesture, 0 - 1)
  /\ prev' = appState

GestureUpdate(gesture, rotation) ==
  /\ GestureUpdateApp(gesture, rotation)
  /\ UNCHANGED auxVars

\* Sidebar: a photo file is chosen.
AddPhoto ==
  /\ Len(appState.photos) < MaxPhotos
  /\ appState' = addPhoto(appState, createObjectURL(appState.photos))
  /\ lastEvent' = Event("addPhoto", "", Len(appState.photos))
  /\ prev' = appState
  /\ UNCHANGED handRotation
  /\ UNCHANGED auxVars

\* Sidebar: the remove button of thumbnail i.
RemovePhoto(i) ==
  /\ i \in Indices(appState.photos)
  /\ appState' = removePhoto(appState, i)
  /\ lastEvent' = Event("removePhoto", "", i)
  /\ prev' = appState
  /\ UNCHANGED handRotation
  /\ UNCHANGED auxVars

\* Sidebar: the Enable Tracker switch.
ToggleGesture ==
  /\ appState' = toggleGesture(appState)
  /\ lastEvent' = Event("toggleGesture", "", 0 - 1)
  /\ prev' = appState
  /\ UNCHANGED handRotation
  /\ UNCHANGED auxVars

\* The Scatter Stars / Gather Tree button.
ToggleTreeState ==
  /\ ManualControlsVisible(appState)
  /\ appState' = toggleTreeState(appState)
  /\ lastEvent' = Event("toggleTreeState", "", 0 - 1)
  /\ prev' = appState
  /\ UNCHANGED handRotation
  /\ UNCHANGED auxVars

\* Scene: a click on photo plane i.
PhotoClick(i) ==
  /\ i \in Indices(appState.photos)
  /\ appState' = handlePhotoClick(appState, i)
  /\ lastEvent' = Event("photoClick", "", i)
  /\ prev' = appState
  /\ UNCHANGED handRotation
  /\ UNCHANGED auxVars

Next ==
  \/ \E c \in GestureCalls : GestureUpdate(c[1], c[2])
  \/ AddPhoto
  \/ \E i \in 0..(MaxPhotos - 1) : RemovePhoto(i)
  \/ ToggleGesture
  \/ ToggleTreeState
  \/ \E i \in 0..(MaxPhotos - 1) : PhotoClick(i)

Spec == Init /\ [][Next]_vars

\* ------------------------------------------------- label sequences (edges)
\* A session of gesture input: the photos were added and the tracker enabled
\* before the first label arrives; every label the tracker delivers is
\* logged together with the outcome of the rising-edge test.
EdgePhotoLists == {[k \in 1..n |-> k] : n \in 0..MaxPhotos}

InitEdge ==
  /\ \E ph \in EdgePhotoLists :
       appState = [treeState |-> GATHERED,
                   useGestures |-> TRUE,
                   currentGesture |-> "None",
                   photos |-> ph,
                   focusedPhotoIndex |-> null]
  /\ handRotation = [x |-> 0, y |-> 0]
  /\ lastEvent = Event("init", "", 0 - 1)
  /\ prev = appState
  /\ labelLog = EmptyLabelLog
  /\ sel = NoSel
  /\ tracker = IdleTracker
  /\ life = IdleLife
  /\ layout = NoLayout

LabelStep(gesture, rotation) ==
  /\ Len(labelLog.labels) < MaxLabels
  /\ GestureUpdateApp(gesture, rotation)
  /\ labelLog' =
       [labels |-> Append(labelLog.labels, gesture),
        edges |-> IF appState.useGestures /\ IsRisingEdge(appState, gesture)
                  THEN labelLog.edges \cup {Len(labelLog.labels)}
                  ELSE labelLog.edges]
  /\ UNCHANGED <<sel, tracker, life, layout>>

NextEdge == \E c \in GestureCalls : LabelStep(c[1], c[2])

SpecEdge == InitEdge /\ [][NextEdge]_vars

\* -------------------------------------------------- selection on a gallery
\* A scattered gallery of 1..SelMaxPhotos photos with gestures enabled, on
\* which one Pinch arrives; beside it the selection loop is run on its own
\* for a target angle of [0, 2*PI).  Every such angle is the normalised
\* atan2 result of some directional signal, since camTheta = 3 * x sweeps
\* more than a full turn over x in [-1.5, 1.5].
InitSel ==
  /\ \E n \in 1..SelMaxPhotos, g \in {"None", "Open"} :
       appState = [treeState |-> SCATTERED,
                   useGestures |-> TRUE,
                   currentGesture |-> g,
                   photos |-> [k \in 1..n |-> k],
                   focusedPhotoIndex |-> null]
  /\ handRotation = [x |-> 0, y |-> 0]
  /\ lastEvent = Event("init", "", 0 - 1)
  /\ prev = appState
  /\ labelLog = EmptyLabelLog
  /\ \E t \in 0..(TwoPI - 1) : sel = [target |-> t, closest |-> null]
  /\ tracker = IdleTracker
  /\ life = IdleLife
  /\ layout = NoLayout

PinchOnGallery(rotation) ==
  /\ lastEvent.op = "init"
  /\ GestureUpdateApp("Pinch", Some(rotation))
  /\ UNCHANGED auxVars

SelectStep ==
  /\ IsNull(sel.closest)
  /\ sel' = [sel EXCEPT
              !.closest = Some(selectClosest(sel.target, Len(appState.photos)))]
  /\ UNCHANGED <<appVars, labelLog, tracker, life, layout>>

NextSel ==
  \/ \E r \in Rotations : PinchOnGallery(r)
  \/ SelectStep

SpecSel == InitSel /\ [][NextSel]_vars

\* --------------------------------------------------- HandTracker: a session
\* Date.now() when the frame loop starts: later than MinInterval after the
\* epoch, so that the first frame passes the throttle.
StartTime == 2 * TickMs

\* A running session: gestures were enabled, the detector and the camera
\* initialised and the frame loop started.
InitTracker ==
  /\ appState = [treeState |-> GATHERED,
                 useGestures |-> TRUE,
                 currentGesture |-> "None",
                 photos |-> << >>,
                 focusedPhotoIndex |-> null]
  /\ handRotation = [x |-> 0, y |-> 0]
  /\ lastEvent = Event("init", "", 0 - 1)
  /\ prev = appState
  /\ labelLog = EmptyLabelLog
  /\ sel = NoSel
  /\ tracker = [IdleTracker EXCEPT !.active = TRUE, !.now = StartTime]
  /\ life = IdleLife
  /\ layout = NoLayout

\* The wall clock advances.
Tick ==
  /\ tracker.now < StartTime + MaxTicks * TickMs
  /\ tracker' = [tracker EXCEPT !.now = @ + TickMs]
  /\ UNCHANGED <<appVars, labelLog, sel, life, layout>>

\* An iteration of the frame loop, the video with or without its
\* dimensions.
Poll(sized) ==
  /\ tracker.active
  /\ tracker' = loopIteration(tracker, tracker.now, sized)
  /\ UNCHANGED <<appVars, labelLog, sel, life, layout>>

\* The detector delivers the result of the inference in flight.
OnResults(r, rejected) ==
  /\ tracker.pending
  /\ tracker.active
  /\ tracker' = onResults(tracker, r, tracker.now, rejected)
  /\ UNCHANGED <<appVars, labelLog, sel, life, layout>>

NextTracker ==
  \/ Tick
  \/ \E sized \in BOOLEAN : Poll(sized)
  \/ \E r \in Results, rejected \in BOOLEAN : OnResults(r, rejected)

SpecTracker == InitTracker /\ [][NextTracker]_vars

\* ------------------------------------------------ HandTracker: life cycle
\* The tracker switch, the asynchronous start-up of each session, the frame
\* loop and the completions of inferences, in any interleaving.  The effect
\* and the cleanup of the previous session run within the switch event.
LifeCalls ==
  {<<"None", null>>} \cup {<<g, Some([x |-> 1, y |-> 0])>> : g \in Labels \ {"None"}}

InitLife ==
  /\ appState = [treeState |-> GATHERED,
                 useGestures |-> FALSE,
                 currentGesture |-> "None",
                 photos |-> <<1>>,
                 focusedPhotoIndex |-> null]
  /\ handRotation = [x |-> 0, y |-> 0]
  /\ lastEvent = Event("init", "", 0 - 1)
  /\ prev = appState
  /\ labelLog = EmptyLabelLog
  /\ sel = NoSel
  /\ tracker = IdleTracker
  /\ life = IdleLife
  /\ layout = NoLayout

\* A step of the tracker that leaves App alone.
LifeStep(op, s, l) ==
  /\ life' = [l EXCEPT !.prevRot = handRotation,
                        !.prevProcessing = life.isProcessing]
  /\ lastEvent' = Event(op, "", s)
  /\ prev' = appState
  /\ UNCHANGED <<appState, handRotation, labelLog, sel, tracker, layout>>

\* A step of the tracker whose handler returns the next App state too.
LifeAppStep(op, gesture, s, r) ==
  /\ life' = [r.life EXCEPT !.prevRot = handRotation,
                             !.prevProcessing = life.isProcessing]
  /\ appState' = r.app
  /\ lastEvent' = Event(op, gesture, s)
  /\ prev' = appState
  /\ UNCHANGED <<labelLog, sel, tracker, layout>>

\* Sidebar: the Enable Tracker switch is turned on.
EnableGestures ==
  /\ ~appState.useGestures
  /\ Len(life.sessions) < MaxSessions
  /\ LifeAppStep("enable", "", Len(life.sessions) + 1,
                 [life |-> effectEnabled(life), app |-> toggleGesture(appState)])
  /\ UNCHANGED handRotation

\* Sidebar: the Enable Tracker switch is turned off.
DisableGestures ==
  /\ appState.useGestures
  /\ LifeAppStep("disable", "", Len(life.sessions),
                 [life |-> effectDisabled(life), app |-> toggleGesture(appState)])
  /\ UNCHANGED handRotation

ScriptLoaded(s) ==
  /\ life.sessions[s].stage = "script"
  /\ LifeStep("scriptLoaded", s, scriptLoaded(life, s))

CameraGranted(s) ==
  /\ life.sessions[s].stage = "camera"
  /\ LifeStep("cameraGranted", s, cameraGranted(life, s))

VideoReady(s) ==
  /\ life.sessions[s].stage = "video"
  /\ LifeStep("videoReady", s, videoReady(life, s))

\* An await of initializeMediaPipe() ends in an exception.
StartupFails(s) ==
  /\ life.sessions[s].stage \in {"script", "camera", "video"}
  /\ LifeAppStep("startupFails", "", s, startupCatch(life, appState, s))
  /\ UNCHANGED handRotation

\* Sidebar: the manual toggle button, rendered while gestures are off.
LifeToggleTreeState ==
  /\ ManualControlsVisible(appState)
  /\ LifeAppStep("toggleTreeState", "", 0,
                 [life |-> life, app |-> toggleTreeState(appState)])
  /\ UNCHANGED handRotation

\* Scene: a click on photo plane i while gestures are off; with gestures on
\* handlePhotoClick returns the state unchanged.
LifePhotoClick(i) ==
  /\ i \in Indices(appState.photos)
  /\ ~appState.useGestures
  /\ LifeAppStep("photoClick", "", i,
                 [life |-> life, app |-> handlePhotoClick(appState, i)])
  /\ UNCHANGED handRotation

\* The wall clock advances by one tick.
LifeTick ==
  /\ life.elapsed < ElapsedCap
  /\ LifeStep("tick", 0, [life EXCEPT !.elapsed = @ + 1])

\* An iteration of the frame loop of session s that passes the gate.
Submit(s) ==
  /\ canSubmit(life, s)
  /\ life.sessions[s].pending < MaxPending
  /\ LifeStep("submit", s, submit(life, s))

\* An inference of session s completes with a result.
DeliverResult(s, gesture, rotation) ==
  /\ life.sessions[s].pending > 0
  /\ LET r == resultCallback(life, appState, handRotation, s, gesture, rotation)
     IN /\ LifeAppStep(IF life.sessions[s].active THEN "result" ELSE "lateResult",
                       gesture, s, r)
        /\ handRotation' = r.rot

\* An inference of session s completes with an error.
DeliverError(s, fatal) ==
  /\ life.sessions[s].pending > 0
  /\ LifeAppStep(IF fatal THEN "crash" ELSE "sendError", "", s,
                 sendCatch(life, appState, s, fatal))
  /\ UNCHANGED handRotation

NextLife ==
  \/ EnableGestures
  \/ DisableGestures
  \/ LifeTick
  \/ \E s \in 1..Len(life.sessions) : Submit(s)
  \/ \E s \in 1..Len(life.sessions) : ScriptLoaded(s)
  \/ \E s \in 1..Len(life.sessions) : CameraGranted(s)
  \/ \E s \in 1..Len(life.sessions) : VideoReady(s)
  \/ \E s \in 1..Len(life.sessions) : StartupFails(s)
  \/ \E s \in 1..Len(life.sessions), c \in LifeCalls :
       DeliverResult(s, c[1], c[2])
  \/ \E s \in 1..Len(life.sessions), fatal \in BOOLEAN :
       DeliverError(s, fatal)

SpecLife == InitLife /\ [][NextLife]_vars

\* The same life cycle with fairness: the frame loop keeps running
\* (requestAnimationFrame) and the clock keeps advancing.  The gate of the
\* loop does not read the labels, so every result is a result without a hand.
FairCalls == {<<"None", null>>}

NextLifeFair ==
  \/ EnableGestures
  \/ DisableGestures
  \/ LifeTick
  \/ \E s \in 1..Len(life.sessions) : Submit(s)
  \/ \E s \in 1..Len(life.sessions) : ScriptLoaded(s)
  \/ \E s \in 1..Len(life.sessions) : CameraGranted(s)
  \/ \E s \in 1..Len(life.sessions) : VideoReady(s)
  \/ \E s \in 1..Len(life.sessions) : StartupFails(s)
  \/ \E s \in 1..Len(life.sessions), c \in FairCalls :
       DeliverResult(s, c[1], c[2])
  \/ \E s \in 1..Len(life.sessions), fatal \in BOOLEAN :
       DeliverError(s, fatal)

SpecLifeFair ==
  /\ InitLife
  /\ [][NextLifeFair]_vars
  /\ WF_vars(LifeTick)
  /\ WF_vars(\E s \in 1..Len(life.sessions) : Submit(s))

\* ------------------------------------------------- Scene: particle layout
\* TreeParticles under the events of App, the settings of the sidebar and the
\* frames of the render loop.  Every event of App and every setting renders
\* TreeParticles again with the current treeState and config.
LayoutCalls ==
  {<<"None", null>>} \cup {<<g, Some([x |-> 0, y |-> 0])>> : g \in Labels \ {"None"}}

InitLayout ==
  /\ appState = [treeState |-> GATHERED,
                 useGestures |-> FALSE,
                 currentGesture |-> "None",
                 photos |-> << >>,
                 focusedPhotoIndex |-> null]
  /\ handRotation = [x |-> 0, y |-> 0]
  /\ lastEvent = Event("init", "", 0 - 1)
  /\ prev = appState
  /\ labelLog = EmptyLabelLog
  /\ sel = NoSel
  /\ tracker = IdleTracker
  /\ life = IdleLife
  /\ \E seed \in Seeds : layout = mountParticles(INITIAL_CONFIG, seed)

\* An event of App: the component renders again with the same config.
LayoutAppStep(op, p) ==
  /\ appState' = p
  /\ lastEvent' = Event(op, "", 0 - 1)
  /\ prev' = appState
  /\ layout' \in renderParticles(layout, layout.config)
  /\ UNCHANGED <<labelLog, sel, tracker, life>>

\* A change of the settings: setConfig({ ...config, field: value }).
LayoutConfigStep(op, config) ==
  /\ lastEvent' = Event(op, "", 0 - 1)
  /\ prev' = appState
  /\ layout' \in renderParticles(layout, config)
  /\ UNCHANGED <<appState, handRotation, labelLog, sel, tracker, life>>

LayoutGesture(gesture, rotation) ==
  /\ LayoutAppStep("gesture",
                   handleGestureUpdate(appState.useGestures, appState, gesture, rotation))
  /\ handRotation' = handRotationAfter(appState.useGestures, handRotation, rotation)

LayoutToggleGesture ==
  /\ LayoutAppStep("toggleGesture", toggleGesture(appState))
  /\ UNCHANGED handRotation

LayoutToggleTreeState ==
  /\ ManualControlsVisible(appState)
  /\ LayoutAppStep("toggleTreeState", toggleTreeState(appState))
  /\ UNCHANGED handRotation

\* A first photo is chosen.
LayoutAddPhoto ==
  /\ appState.photos = << >>
  /\ LayoutAppStep("addPhoto", addPhoto(appState, createObjectURL(appState.photos)))
  /\ UNCHANGED handRotation

LayoutRemovePhoto(i) ==
  /\ i \in Indices(appState.photos)
  /\ LayoutAppStep("removePhoto", removePhoto(appState, i))
  /\ UNCHANGED handRotation

LayoutPhotoClick(i) ==
  /\ i \in Indices(appState.photos)
  /\ LayoutAppStep("photoClick", handlePhotoClick(appState, i))
  /\ UNCHANGED handRotation

\* The sliders and the colour picker of the sidebar.
SetCount(count) ==
  LayoutConfigStep("setCount", [layout.config EXCEPT !.count = count])

SetSize(size) ==
  LayoutConfigStep("setSize", [layout.config EXCEPT !.size = size])

SetBrightness(brightness) ==
  LayoutConfigStep("setBrightness", layout.config)

SetColor(color) ==
  LayoutConfigStep("setColor", layout.config)

\* The render loop draws a frame, one quarter period of the floating
\* animation after the last.
Frame ==
  /\ layout.frames < MaxFrames
  /\ layout' = frame(layout, appState.treeState, layout.frames)
  /\ lastEvent' = Event("frame", "", 0 - 1)
  /\ prev' = appState
  /\ UNCHANGED <<appState, handRotation, labelLog, sel, tracker, life>>

NextLayout ==
  \/ \E c \in LayoutCalls : LayoutGesture(c[1], c[2])
  \/ LayoutToggleGesture
  \/ LayoutToggleTreeState
  \/ LayoutAddPhoto
  \/ LayoutRemovePhoto(0)
  \/ LayoutPhotoClick(0)
  \/ \E count \in Counts : SetCount(count)
  \/ \E size \in Sizes : SetSize(size)
  \/ \E brightness \in Brightnesses : SetBrightness(brightness)
  \/ \E color \in Colors : SetColor(color)
  \/ Frame

SpecLayout == InitLayout /\ [][NextLayout]_vars

\* ----------------------------------- gesture input switched off and on again
\* App across the sessions of the tracker: the switch, the labels the current
\* session delivers to handleGestureUpdate and the manual controls that are
\* available while the switch is off.  The start-up and the inferences of a
\* session are those of the life cycle above; here a session is followed
\* through the labels it has delivered, logged since its start.
MaxSessionLabels == 2

ResumeStep(op, gesture, index, app, rot, l, log) ==
  /\ appState' = app
  /\ handRotation' = rot
  /\ lastEvent' = Event(op, gesture, index)
  /\ prev' = appState
  /\ life' = l
  /\ labelLog' = log
  /\ UNCHANGED <<sel, tracker, layout>>

\* Sidebar: the Enable Tracker switch is turned on; the effect starts a
\* session, which has delivered nothing yet.
ResumeEnable ==
  /\ ~appState.useGestures
  /\ Len(life.sessions) < MaxSessions
  /\ ResumeStep("enable", "", Len(life.sessions) + 1, toggleGesture(appState),
                handRotation, effectEnabled(life), EmptyLabelLog)

\* Sidebar: the Enable Tracker switch is turned off.
ResumeDisable ==
  /\ appState.useGestures
  /\ ResumeStep("disable", "", Len(life.sessions), toggleGesture(appState),
                handRotation, effectDisabled(life), labelLog)

\* The current session calls the onGestureUpdate it was created with.
ResumeLabel(gesture, rotation) ==
  /\ appState.useGestures
  /\ Len(labelLog.labels) < MaxSessionLabels
  /\ ResumeStep("gesture", gesture, Len(life.sessions),
                handleGestureUpdate(TRUE, appState, gesture, rotation),
                handRotationAfter(TRUE, handRotation, rotation),
                life,
                [labels |-> Append(labelLog.labels, gesture),
                 edges |-> IF IsRisingEdge(appState, gesture)
                           THEN labelLog.edges \cup {Len(labelLog.labels)}
                           ELSE labelLog.edges])

NextResume ==
  \/ ResumeEnable
  \/ ResumeDisable
  \/ \E c \in LifeCalls : ResumeLabel(c[1], c[2])
  \/ LifeToggleTreeState
  \/ \E i \in Indices(appState.photos) : LifePhotoClick(i)

SpecResume == InitLife /\ [][NextResume]_vars

TypeOK ==
  /\ appState.treeState \in {GATHERED, SCATTERED}
  /\ appState.useGestures \in BOOLEAN
  /\ appState.currentGesture \in Labels
  /\ Len(appState.photos) <= MaxPhotos
  /\ handRotation \in Rotations

\* ===================================================================== claims
\* The event that produced the current state.
Fired(op) == lastEvent.op = op
GestureFired(g) == lastEvent.op = "gesture" /\ lastEvent.gesture = g
Focused(p) == ~IsNull(p.focusedPhotoIndex)
\* Everything of the application state but the scene state and the label.
SameControls(p, q) == p.useGestures = q.useGestures /\ p.photos = q.photos

\* C1: focusedPhotoIndex is non-null only while treeState = SCATTERED, and a
\* handler that takes treeState to GATHERED leaves focusedPhotoIndex null in
\* the state it produces (one update, no state in between).
C1_FocusOnlyWhileScattered ==
  /\ Focused(appState) => appState.treeState = SCATTERED
  /\ (prev.treeState # GATHERED /\ appState.treeState = GATHERED)
       => IsNull(appState.focusedPhotoIndex)

\* C1 witness: a handler gathered the tree from a state with a focused photo.
C1_Witness ==
  /\ prev.treeState = SCATTERED /\ Focused(prev)
  /\ appState.treeState = GATHERED

\* C2: removePhoto(i) while focusedPhotoIndex = i resets focusedPhotoIndex
\* to null.
C2_RemoveFocusedResetsFocus ==
  (Fired("removePhoto") /\ prev.focusedPhotoIndex = Some(lastEvent.index))
    => IsNull(appState.focusedPhotoIndex)

\* C3: with gestures enabled a Fist label yields GATHERED and no focus from
\* any prior state; on a state that is already GATHERED it changes neither.
C3_FistGathers ==
  (GestureFired("Fist") /\ prev.useGestures)
    => /\ appState.treeState = GATHERED
       /\ IsNull(appState.focusedPhotoIndex)
       /\ SameControls(appState, prev)
       /\ prev.treeState = GATHERED
            => /\ appState.treeState = prev.treeState
               /\ appState.focusedPhotoIndex = prev.focusedPhotoIndex

\* C3 witness: a Fist arrived on a scattered scene with a focused photo.
C3_Witness ==
  /\ GestureFired("Fist") /\ prev.useGestures
  /\ prev.treeState = SCATTERED /\ Focused(prev)

\* C4: with gestures enabled an Open label yields SCATTERED and no focus from
\* any prior state, also from SCATTERED with a photo focused.
C4_OpenScatters ==
  (GestureFired("Open") /\ prev.useGestures)
    => /\ appState.treeState = SCATTERED
       /\ IsNull(appState.focusedPhotoIndex)
       /\ SameControls(appState, prev)

\* C4 witness: an Open arrived on a scattered scene with a focused photo.
C4_Witness ==
  /\ GestureFired("Open") /\ prev.useGestures
  /\ prev.treeState = SCATTERED /\ Focused(prev)

C6_PinchOtherwiseNoChange ==
  (/\ GestureFired("Pinch")
   /\ \/ prev.treeState = GATHERED
      \/ prev.currentGesture = "Pinch"
      \/ Len(prev.photos) = 0)
    => /\ appState.treeState = prev.treeState
       /\ appState.focusedPhotoIndex = prev.focusedPhotoIndex
       /\ SameControls(appState, prev)

\* C6 witness: a held pinch whose direction now points at another slot than
\* the focused one was processed with gestures enabled.
C6_Witness ==
  /\ GestureFired("Pinch") /\ prev.useGestures
  /\ prev.currentGesture = "Pinch"
  /\ prev.treeState = SCATTERED
  /\ Len(prev.photos) > 0
  /\ Focused(prev)
  /\ prev.focusedPhotoIndex #
       Some(AngularSelector(handRotation.x, Len(prev.photos)))

C8_DisabledGestureIgnored ==
  [][(lastEvent'.op = "gesture" /\ ~appState.useGestures)
       => (appState' = appState /\ handRotation' = handRotation)]_vars

\* C8 witness: an Open label arrived while gestures were disabled, the tree
\* gathered, the remembered label Pinch and a non-neutral direction stored.
C8_Witness ==
  /\ GestureFired("Open") /\ ~prev.useGestures
  /\ prev.treeState = GATHERED
  /\ prev.currentGesture = "Pinch"
  /\ handRotation.x # 0

\* C9 as stated: the manual toggle flips treeState and clears the focus, and
\* it is available whatever the gesture-enabled flag is.
C9_ToggleAlwaysAvailable ==
  /\ Fired("toggleTreeState")
       => /\ appState.treeState # prev.treeState
          /\ IsNull(appState.focusedPhotoIndex)
  /\ ManualControlsVisible(appState)

\* C9 amended: the manual toggle is used only while gestures are disabled;
\* whenever it is used it flips treeState GATHERED<->SCATTERED and sets
\* focusedPhotoIndex to null, whatever the remembered label and the focus are.
C9_ToggleFlipsAndClears ==
  Fired("toggleTreeState")
    => /\ ~prev.useGestures
       /\ appState.treeState =
            (IF prev.treeState = GATHERED THEN SCATTERED ELSE GATHERED)
       /\ IsNull(appState.focusedPhotoIndex)
       /\ SameControls(appState, prev)
       /\ appState.currentGesture = prev.currentGesture

\* C9 witness: the toggle was used on a scattered scene with a focused photo
\* while the remembered label was Pinch.
C9_Witness ==
  /\ Fired("toggleTreeState")
  /\ prev.treeState = SCATTERED /\ Focused(prev)
  /\ prev.currentGesture = "Pinch"

\* C10: a click on photo i takes effect only with gestures disabled and
\* treeState = SCATTERED: the focus becomes i, or null when i was focused;
\* otherwise the click changes nothing.
C10_PhotoClick ==
  Fired("photoClick")
    => IF ~prev.useGestures /\ prev.treeState = SCATTERED
       THEN appState =
              [prev EXCEPT !.focusedPhotoIndex =
                 IF prev.focusedPhotoIndex = Some(lastEvent.index)
                 THEN null ELSE Some(lastEvent.index)]
       ELSE appState = prev

\* C10 witness: a second click on the focused photo cleared the focus.
C10_Witness ==
  /\ Fired("photoClick")
  /\ prev.focusedPhotoIndex = Some(lastEvent.index)
  /\ IsNull(appState.focusedPhotoIndex)

\* The positions of a label sequence at which a Pinch follows a label other
\* than Pinch, the label before the first one being None.
EdgesOf(labels) ==
  {i \in 0..(Len(labels) - 1) :
     /\ labels[i + 1] = "Pinch"
     /\ (IF i = 0 THEN "None" ELSE labels[i]) # "Pinch"}

ScenarioLabels == <<"None", "Pinch", "Pinch", "Fist", "Pinch">>

\* C11: position i of the processed label sequence is a Pinch rising edge
\* exactly when label[i] = Pinch and the label processed before it (None
\* initially) is not Pinch; for [None, Pinch, Pinch, Fist, Pinch] the edges
\* are at 1 and 4 only.
C11_RisingEdges ==
  /\ labelLog.edges = EdgesOf(labelLog.labels)
  /\ labelLog.labels = ScenarioLabels => labelLog.edges = {1, 4}

\* C11 witness: the scenario sequence was processed.
C11_Witness ==
  /\ labelLog.labels = ScenarioLabels
  /\ labelLog.edges = {1, 4}

\* C12: a Pinch label that follows a Pinch label leaves focusedPhotoIndex as
\* it was, wherever its direction points.
C12_HeldPinchNeverReselects ==
  LET n == Len(labelLog.labels)
  IN (n >= 2 /\ labelLog.labels[n] = "Pinch" /\ labelLog.labels[n - 1] = "Pinch")
       => appState.focusedPhotoIndex = prev.focusedPhotoIndex

\* C12 witness: the third Pinch of a run, on a scattered scene, pointing at
\* another slot than the one the first Pinch of the run focused.
C12_Witness ==
  LET n == Len(labelLog.labels)
  IN /\ n >= 4
     /\ labelLog.labels[n] = "Pinch"
     /\ labelLog.labels[n - 1] = "Pinch"
     /\ labelLog.labels[n - 2] = "Pinch"
     /\ labelLog.labels[n - 3] = "Open"
     /\ Len(appState.photos) > 1
     /\ Focused(appState)
     /\ appState.focusedPhotoIndex #
          Some(AngularSelector(handRotation.x, Len(appState.photos)))

\* A Pinch rising edge was processed on a scattered gallery of ten photos
\* with gestures enabled, carrying the neutral direction {x: 0, y: 0}.
TenPhotosNeutralPinch ==
  /\ GestureFired("Pinch")
  /\ prev.treeState = SCATTERED
  /\ prev.useGestures
  /\ prev.currentGesture # "Pinch"
  /\ Len(prev.photos) = 10
  /\ handRotation = [x |-> 0, y |-> 0]

\* C13 as stated: in that scenario focusedPhotoIndex becomes 0.
C13_TenPhotosNeutralSelectsZero ==
  TenPhotosNeutralPinch => appState.focusedPhotoIndex = Some(0)

\* C13: with 10 photos, treeState = SCATTERED, gestures enabled and the
\* directional signal {x: 0, y: 0}, a Pinch rising edge sets
\* focusedPhotoIndex to 2: the target angle is atan2(cos 0, sin 0) = PI/2,
\* midway between slots 2 and 3, and the lower index wins.
C13_TenPhotosNeutralSelectsTwo ==
  TenPhotosNeutralPinch => appState.focusedPhotoIndex = Some(2)

\* C13 witness: the scenario happened and photo 2 is focused.
C13_Witness ==
  /\ TenPhotosNeutralPinch
  /\ appState.focusedPhotoIndex = Some(2)

\* C14: when the target angle equals slot k's angle the loop returns k; when
\* it lies exactly midway between slots k and k+1 (mod N) the loop returns k
\* or k+1.
C14_RotationConsistent ==
  LET n == Len(appState.photos)
  IN ~IsNull(sel.closest) =>
       \A k \in 0..(n - 1) :
         /\ sel.target * n = k * TwoPI => Val(sel.closest) = k
         /\ 2 * sel.target * n = (2 * k + 1) * TwoPI
              => Val(sel.closest) \in {k, (k + 1) % n}

\* C14 witness: the loop ran for a target midway between the last slot and
\* slot 0 of a gallery of three or more photos, and returned slot 0.
C14_Witness ==
  LET n == Len(appState.photos)
  IN /\ n >= 3
     /\ 2 * sel.target * n = (2 * (n - 1) + 1) * TwoPI
     /\ sel.closest = Some(0)

\* The shorter arc between the target and slot j of n, multiplied by n.
CircDist(target, j, n) ==
  LET d == (target * n - j * TwoPI) % (TwoPI * n)
  IN IF d <= TwoPI * n - d THEN d ELSE TwoPI * n - d

SelectingPinch ==
  /\ GestureFired("Pinch")
  /\ prev.useGestures
  /\ prev.currentGesture # "Pinch"
  /\ prev.treeState = SCATTERED

\* C16: a selecting Pinch on a non-empty photo list leaves an index of
\* 0..count-1 in focusedPhotoIndex, never -1 or null; on an empty list it
\* leaves focusedPhotoIndex as it was.
C16_SelectorIndexInRange ==
  SelectingPinch =>
    IF Len(prev.photos) > 0
    THEN /\ Focused(appState)
         /\ Val(appState.focusedPhotoIndex) \in Indices(prev.photos)
    ELSE appState.focusedPhotoIndex = prev.focusedPhotoIndex

\* C16 witness: a selecting Pinch arrived while the photo list was empty and
\* a focus was still set; the focus was kept.
C16_Witness ==
  /\ SelectingPinch
  /\ Len(prev.photos) = 0
  /\ Focused(prev)
  /\ appState.focusedPhotoIndex = prev.focusedPhotoIndex

\* The last detector result was a complete hand sample; the label that was
\* passed to onGestureUpdate for it.
HandClassified == tracker.lastResult.kind = "hand" /\ ~IsNull(tracker.emitted)
EmittedLabel == Val(tracker.emitted).gesture
NoneCall == Some([gesture |-> "None", rotation |-> null])

\* The label the open-finger count alone stands for.
CountLabel(n) == IF n = 0 THEN "Fist" ELSE IF n = 4 THEN "Open" ELSE "None"

\* C17: the label of a hand sample is Pinch when the thumb-tip/index-tip
\* distance is below the threshold and the hand is not moving fast;
\* otherwise Fist for an open-finger count of 0, Open for 4, None for 1..3.
C17_ClassifierPriority ==
  tracker.lastResult.kind = "hand" =>
    LET lm == tracker.lastResult.lm
        pinch == PinchDistance2(lm) < PinchThreshold * PinchThreshold
                   /\ ~tracker.fast
    IN /\ HandClassified
       /\ pinch => EmittedLabel = "Pinch"
       /\ ~pinch => EmittedLabel = CountLabel(fingersOpenCount(lm))

\* C17 witness: a closed hand with thumb and index tips touching, after a
\* slow but non-zero movement of the palm, was labelled Pinch.
C17_Witness ==
  /\ HandClassified
  /\ fingersOpenCount(tracker.lastResult.lm) = 0
  /\ PinchDistance2(tracker.lastResult.lm) < PinchThreshold * PinchThreshold
  /\ ~tracker.zero
  /\ ~tracker.fast
  /\ EmittedLabel = "Pinch"

\* C18: a hand sample whose pinch distance is at or above the threshold is
\* labelled by its open-finger count alone, whatever the speed.
C18_CountDecidesWhenNotPinching ==
  (/\ tracker.lastResult.kind = "hand"
   /\ PinchDistance2(tracker.lastResult.lm) >= PinchThreshold * PinchThreshold)
    => /\ HandClassified
       /\ EmittedLabel = CountLabel(fingersOpenCount(tracker.lastResult.lm))

\* C18 witness: a fast-moving open hand with a pinch distance exactly at the
\* threshold was labelled Open.
C18_Witness ==
  /\ HandClassified
  /\ PinchDistance2(tracker.lastResult.lm) = PinchThreshold * PinchThreshold
  /\ fingersOpenCount(tracker.lastResult.lm) = 4
  /\ tracker.fast
  /\ EmittedLabel = "Open"

\* C19: a result without a hand emits None and clears the stored palm
\* position, and the first hand sample after it is analysed with speed 0.
C19_AbsenceResetsVelocity ==
  /\ tracker.lastResult.kind = "absent"
       => /\ tracker.emitted = NoneCall
          /\ IsNull(tracker.lastHandPos)
  /\ (tracker.lastResult.kind = "hand" /\ tracker.prevKind = "absent")
       => /\ tracker.zero
          /\ ~tracker.fast

\* C19 witness: the hand was lost at the image centre and re-appeared, in a
\* pinch, 0.7 image widths away; the sample was labelled Pinch.
C19_Witness ==
  /\ HandClassified
  /\ tracker.prevKind = "absent"
  /\ tracker.lostPos = Some([x |-> 50, y |-> 50])
  /\ tracker.lastResult.lm.lm9.x = 120
  /\ tracker.zero
  /\ EmittedLabel = "Pinch"

\* A sample with missing landmarks, or with a palm outside the image.
Malformed ==
  \/ tracker.lastResult.kind \in {"noPalm", "noFingers"}
  \/ /\ tracker.lastResult.kind = "hand"
     /\ tracker.lastResult.lm.lm9.x \notin 0..100

\* C20 as stated: a sample with missing or out-of-range landmarks does not
\* throw and is handled like absence: None is emitted, the stored palm
\* position is cleared and the in-flight flag is cleared.
C20_MalformedTreatedAsAbsence ==
  Malformed => /\ ~tracker.threw
               /\ tracker.emitted = NoneCall
               /\ IsNull(tracker.lastHandPos)
               /\ ~tracker.isProcessing

\* ------------------------------------------------ claims on the life cycle
RECURSIVE SumPending(_, _)
SumPending(sessions, k) ==
  IF k = 0 THEN 0 ELSE sessions[k].pending + SumPending(sessions, k - 1)

\* The inferences submitted whose result or error has not been delivered.
InFlight == SumPending(life.sessions, Len(life.sessions))

\* C21 as stated: at most one detector inference is in flight at any time,
\* in every interleaving of loop iterations, result and error callbacks and
\* switchings of the tracker.
C21_AtMostOneInFlight == InFlight <= 1

\* C22: a detector result delivered to a session after gesture input was
\* disabled changes neither appState (treeState, focusedPhotoIndex, the
\* remembered label) nor the hand rotation.
C22_LateResultsIgnored ==
  (/\ lastEvent.op \in {"result", "lateResult"}
   /\ life.sessions[lastEvent.index].stoppedAt # "")
    => /\ appState = prev
       /\ handRotation = life.prevRot

\* C22 witness: after the tracker was switched off and on again, a Fist
\* result of the first session arrived while the scene was scattered and a
\* photo focused.
C22_Witness ==
  /\ lastEvent.op = "lateResult"
  /\ lastEvent.gesture = "Fist"
  /\ lastEvent.index = 1
  /\ life.sessions[1].stoppedAt = "running"
  /\ appState.useGestures
  /\ appState.treeState = SCATTERED
  /\ Focused(appState)

\* C23: once the cleanup of a session has run, at whatever stage of its
\* start-up, the session holds no live camera stream and submits no
\* inference.
C23_DisableStopsCameraAndPolling ==
  \A s \in 1..Len(life.sessions) :
    life.sessions[s].stoppedAt # ""
      => /\ life.sessions[s].stream # "live"
         /\ ~canSubmit(life, s)
         /\ ~(lastEvent.op = "submit" /\ lastEvent.index = s)

\* C23 witness: a session switched off while it waited for the camera
\* permission obtained the stream afterwards and stopped it.
C23_Witness ==
  /\ lastEvent.op = "cameraGranted"
  /\ life.sessions[lastEvent.index].stoppedAt = "camera"
  /\ life.sessions[lastEvent.index].stream = "stopped"
  /\ life.sessions[lastEvent.index].stage = "returned"

\* C25 as stated: after a resource-exhaustion error no inference is ever
\* submitted and no gesture event reaches App, whatever the user does.
C25_CrashDisablesForGood ==
  life.crashed => lastEvent.op \notin {"submit", "result"}

\* The latest session failed during start-up and gestures are still on.
StartupFailed ==
  /\ appState.useGestures
  /\ Len(life.sessions) > 0
  /\ life.sessions[Len(life.sessions)].stage = "failed"

\* C26 as stated: after a start-up failure the status stays 'Error', no
\* gesture event is delivered, the manual toggle is available and a click
\* on a photo of the scattered scene selects or deselects it.
C26_StartupFailureKeepsManualControls ==
  StartupFailed
    => /\ life.status = "Error"
       /\ lastEvent.op # "result"
       /\ ManualControlsVisible(appState)
       /\ appState.treeState = SCATTERED
            => handlePhotoClick(appState, 0).focusedPhotoIndex
                 # appState.focusedPhotoIndex

\* C27: a start-up failure, a recoverable inference error and a
\* resource-exhaustion crash leave treeState, focusedPhotoIndex and the
\* photo list as they were.
C27_ErrorsLeaveSceneState ==
  lastEvent.op \in {"startupFails", "sendError", "crash"}
    => /\ appState.treeState = prev.treeState
       /\ appState.focusedPhotoIndex = prev.focusedPhotoIndex
       /\ appState.photos = prev.photos

\* C27 witness: the detector crashed while the scene was scattered with a
\* photo focused.
C27_Witness ==
  /\ lastEvent.op = "crash"
  /\ appState.treeState = SCATTERED
  /\ Focused(appState)
  /\ life.status = "Crash"

\* A recoverable inference error was just delivered to the running session.
ErrorRecovered ==
  /\ lastEvent.op = "sendError"
  /\ lastEvent.index = CurrentSession(appState, life)
  /\ life.sessions[lastEvent.index].active

\* An inference was submitted (only the running session can), or gestures
\* were switched off, or the running session has crashed.
SubmittedOrStopped ==
  \/ lastEvent.op = "submit"
  \/ ~appState.useGestures
  \/ ~life.sessions[Len(life.sessions)].active

\* C24: after an inference error that is not resource exhaustion, while the
\* frame loop keeps running and gestures stay enabled, the session
\* eventually submits another inference.
C24_RecoverableErrorRecovered == ErrorRecovered ~> SubmittedOrStopped

\* C24 witness: a session that had a recoverable inference error submitted
\* an inference afterwards.
C24_Witness ==
  /\ lastEvent.op = "submit"
  /\ life.sessions[lastEvent.index].failedOnce
  /\ life.sessions[lastEvent.index].active

\* The category rule as stated, and the number of records of a category.
CategoryOf(i, N) ==
  IF i < (15 * N) \div 100 THEN "core"
  ELSE IF i % 30 = 0 THEN "ornament"
  ELSE IF i % 6 = 0 THEN "ribbon"
  ELSE "structure"

CategoryCount(ps, t) == Cardinality({i \in DOMAIN ps : ps[i].type = t})

\* C28: the category of particle i among N depends on i and N alone: core
\* below floor(0.15 N), else ornament when 30 divides i, else ribbon when 6
\* divides i, else structure; so the number of particles of each category is
\* the same in every generation for the same N.
C28_CategoryByIndexAndCount ==
  LET N == layout.config.count
  IN  /\ DOMAIN layout.particles = 0..(N - 1)
      /\ \A i \in DOMAIN layout.particles :
            layout.particles[i].type = CategoryOf(i, N)
      /\ \A t \in ParticleTypes :
            CategoryCount(layout.particles, t)
              = Cardinality({i \in 0..(N - 1) : CategoryOf(i, N) = t})

\* C28 witness: the records were generated again, with a core that takes
\* index 0 from the ornaments and index 30 an ornament, not a ribbon.
C28_Witness ==
  /\ lastEvent.op = "setCount" /\ layout.prevParticles # layout.particles
  /\ layout.config.count > 30
  /\ layout.particles[0].type = "core"
  /\ layout.particles[30].type = "ornament"
  /\ layout.particles[6].type = "ribbon"

\* The last event changed the number of records.
CountChanged == DOMAIN layout.prevParticles # DOMAIN layout.particles

\* C29: the particle records change only when the particle count changes,
\* and then as a whole: scene-state transitions, gesture events, photo
\* operations, size, colour and brightness settings and frames leave the
\* gathered position, scattered position, category and heart membership of
\* every record as they were.
C29_RecordsChangeOnlyWithCount ==
  /\ lastEvent.op # "setCount" => layout.particles = layout.prevParticles
  /\ ~CountChanged => layout.particles = layout.prevParticles
  /\ \E seed \in Seeds :
        layout.particles = ParticleTable[layout.config.count][seed]

\* C29 witness: the size setting was changed while the scattered particles
\* were in flight, after the records had been generated a second time.
C29_Witness ==
  /\ lastEvent.op = "setSize" /\ layout.config.size # INITIAL_CONFIG.size
  /\ layout.config.count # INITIAL_CONFIG.count
  /\ appState.treeState = SCATTERED
  /\ layout.frames > 0
  /\ layout.particles = layout.prevParticles

\* x lies between a and b, the ends included.
Between(a, x, b) == (a <= x /\ x <= b) \/ (b <= x /\ x <= a)

FrameDrawn == lastEvent.op = "frame"
FlightTarget(i) == targetOf(appState.treeState, layout.particles[i])

\* No coordinate of an instance passed its target in the last frame.
NoOvershoot(i) ==
  LET was == layout.prevRendered[i]
      now == layout.rendered[i]
      target == FlightTarget(i)
  IN  /\ Between(was.x, now.x, target.x)
      /\ Between(was.y, now.y, target.y)
      /\ Between(was.z, now.z, target.z)

\* The instances stay where they are drawn under every event that is not a
\* frame, a change of the count aside, which builds a new mesh.
NoJump ==
  (~FrameDrawn /\ ~CountChanged) => layout.rendered = layout.prevRendered

HeartPointOf(pos) ==
  [x |-> pos.x \div (12 * U40),
   y |-> (pos.y + 140 * U40) \div (12 * U40),
   z |-> pos.z \div (12 * U40)]

\* C31: the sampling of a heart member draws at least one and at most 100
\* candidates; the position is made from a candidate inside the heart, or,
\* when all 100 failed, from the origin, which gives (0, -3.5, 0).
C31_HeartSamplingBounded ==
  \A i \in DOMAIN layout.particles :
    LET p == layout.particles[i]
    IN  p.isHeart =>
          /\ p.attempts >= 1 /\ p.attempts <= 100
          /\ p.done => /\ insideHeart(HeartPointOf(p.scatteredPos))
                       /\ p.scatteredPos
                            = P40(12 * HeartPointOf(p.scatteredPos).x,
                                  12 * HeartPointOf(p.scatteredPos).y - 140,
                                  12 * HeartPointOf(p.scatteredPos).z)
          /\ ~p.done => /\ p.attempts = 100
                        /\ p.scatteredPos = P40(0, 0 - 140, 0)

\* C31 witness: the records were generated for a new count, with one heart
\* member whose 100 candidates all failed and one that was placed inside the
\* heart after several attempts.
C31_Witness ==
  /\ lastEvent.op = "setCount" /\ CountChanged
  /\ \E i \in DOMAIN layout.particles :
        LET p == layout.particles[i]
        IN  p.isHeart /\ ~p.done /\ p.attempts = 100
            /\ p.scatteredPos = P40(0, 0 - 140, 0)
  /\ \E i \in DOMAIN layout.particles :
        LET p == layout.particles[i]
        IN  p.isHeart /\ p.done /\ p.attempts > 1

\* C32: the hand is marked as moving fast exactly when there is a previous
\* hand sample, the time since it is positive and the planar displacement of
\* the palm divided by that time in seconds exceeds 1.0; without a previous
\* sample, or with no time elapsed, the speed is 0 and the hand is not
\* moving fast.  (Displacement in hundredths, time in milliseconds.)
C32_VelocityGate ==
  HandClassified =>
    LET palm == tracker.lastResult.lm.lm9
        hasPrevious == ~IsNull(tracker.prevHandPos)
        dt == tracker.lastAnalysisTime - tracker.prevAnalysisTime
    IN  /\ tracker.fast <=>
              /\ hasPrevious
              /\ dt > 0
              /\ 100 * Displacement2(Val(tracker.prevHandPos), palm) > dt * dt
        /\ (~hasPrevious \/ dt <= 0) => tracker.zero /\ ~tracker.fast

\* C32 witness: a palm that moved between two samples taken at different
\* times and was marked as moving fast.
C32_Witness ==
  /\ HandClassified
  /\ ~IsNull(tracker.prevHandPos)
  /\ tracker.lastAnalysisTime > tracker.prevAnalysisTime
  /\ tracker.fast

\* The directional signal passed with the last label.
EmittedRotation == Val(Val(tracker.emitted).rotation)

C34_SubmissionsThrottled ==
  /\ ~IsNull(tracker.prevInferenceTime)
       => tracker.lastInferenceTime - Val(tracker.prevInferenceTime) > 66
  /\ tracker.sentSized

\* C34 witness: a second frame was submitted, after an iteration of the loop
\* that found the video without dimensions.
C34_Witness ==
  /\ ~IsNull(tracker.prevInferenceTime)
  /\ tracker.pending
  /\ tracker.unsizedSeen

\* An index of the photo list p.photos, or null.
ValidFocus(p) ==
  IsNull(p.focusedPhotoIndex) \/ Val(p.focusedPhotoIndex) \in Indices(p.photos)

\* C35: focusedPhotoIndex is null or an index of the current photo list, in
\* every reachable state.
C35_FocusIsValidIndex == ValidFocus(appState)

\* C36: removing a photo other than the focused one keeps the focus on the
\* same photo: the focused index is valid and designates the URL it
\* designated before the removal.
C36_RemoveOtherKeepsFocusedPhoto ==
  (Fired("removePhoto") /\ Focused(prev) /\ ValidFocus(prev)
     /\ lastEvent.index # Val(prev.focusedPhotoIndex))
    => /\ Focused(appState) /\ ValidFocus(appState)
       /\ PhotoAt(appState.photos, Val(appState.focusedPhotoIndex))
            = PhotoAt(prev.photos, Val(prev.focusedPhotoIndex))

\* The session an event of the tracker belongs to was switched off earlier
\* and a later session is the current one.
FromEarlierSession ==
  /\ CurrentSession(appState, life) > 0
  /\ lastEvent.index \in 1..(CurrentSession(appState, life) - 1)

\* C39: the error callback of an inference submitted by an earlier session,
\* already switched off, does not clear isProcessing while an inference of
\* the current session is pending.
C39_FlagClearedOnlyByOwnCompletion ==
  (/\ lastEvent.op \in {"sendError", "crash"}
   /\ FromEarlierSession
   /\ life.sessions[CurrentSession(appState, life)].pending > 0
   /\ life.prevProcessing)
    => life.isProcessing

\* C40: while gesture input is disabled the status of the tracker is
\* 'Disabled', whichever start-up steps of earlier sessions complete.
C40_DisabledStatusStays ==
  ~appState.useGestures => life.status = "Disabled"

\* The session of the latest effect run is running: its start-up has
\* finished and neither a cleanup nor a crash has ended it.
CurrentSessionRunning ==
  /\ CurrentSession(appState, life) > 0
  /\ life.sessions[CurrentSession(appState, life)].active
  /\ life.sessions[CurrentSession(appState, life)].stage = "running"

\* C38: gesture camera control is active, and manual orbit control off, only
\* while the current session is running: not while a new session starts up,
\* not after a start-up failure and not after a crash.
C38_GestureControlOnlyWhileRunning ==
  (isGestureActive(appState) \/ ~orbitControlsEnabled(appState))
    => CurrentSessionRunning

\* The label just delivered is the first Pinch of a session that was started
\* after an earlier session had been switched off.
FirstPinchAfterResume ==
  /\ Fired("gesture")
  /\ lastEvent.gesture = "Pinch"
  /\ lastEvent.index >= 2
  /\ Cardinality({k \in DOMAIN labelLog.labels : labelLog.labels[k] = "Pinch"}) = 1

\* C37: the first Pinch label of a session started after a disable counts as
\* a rising edge and, in SCATTERED with a photo in the list, selects a photo,
\* whatever label was processed last before the disable.
C37_FirstPinchAfterResumeSelects ==
  (FirstPinchAfterResume /\ prev.treeState = SCATTERED /\ prev.photos # << >>)
    => /\ (Len(labelLog.labels) - 1) \in labelLog.edges
       /\ Focused(appState)

====
